---- MODULE Spec2Model ----
(***************************************************************************)
(* Model of the pocket-planner layout optimisation workflow:               *)
(*   vision -> constraint -> (solver -> constraint)* -> render -> END      *)
(* (backend/app/agents/graph.py), of the shared AgentState                 *)
(* (backend/app/models/state.py), of the constraint node                   *)
(* (backend/app/agents/constraint_node.py) and of the local-search solver  *)
(* (backend/app/agents/solver_node.py).                                    *)
(*                                                                         *)
(* The modules app.core.geometry, app.core.room_graph,                     *)
(* app.core.constraints, app.core.scoring and app.models.room are not part *)
(* of the sources; their operators below follow the written specification  *)
(* (sections 3, 4.1 - 4.4).                                                *)
(*                                                                         *)
(* Optional values: None is the empty sequence, Some(v) is <<v>>.          *)
(* Coordinates are integers (all inputs and all solver offsets are).       *)
(***************************************************************************)
EXTENDS Integers, Sequences, FiniteSets, TLC

VARIABLES
    pc,                    \* node of the graph that runs next
    room_dimensions,       \* AgentState.room_dimensions  <<width, height>>
    original_layout,       \* AgentState.original_layout
    current_layout,        \* AgentState.current_layout
    locked_object_ids,     \* AgentState.locked_object_ids
    constraint_violations, \* AgentState.constraint_violations
    iteration_count,       \* AgentState.iteration_count
    max_iterations,        \* AgentState.max_iterations
    initial_score,         \* AgentState.initial_score   (Optional)
    current_score,         \* AgentState.current_score   (Optional)
    proposed_layout,       \* AgentState.proposed_layout (Optional)
    explanation,           \* AgentState.explanation (kind of text)
    should_continue,       \* AgentState.should_continue
    error,                 \* AgentState.error (Optional)
    solver_calls,          \* history: number of solver_node invocations
    search_log,            \* history: find_better_position calls of the last pass
    objects,               \* the caller's list of objects (run_optimization)
    current_refs,          \* the instances the entries of current_layout refer to
    api_pc,                \* position of a call of the API ("idle" without one)
    request_layout,        \* the layout of the call (request.current_layout)
    request_locked_ids,    \* request.locked_ids
    http_status,           \* status of the response of /optimize (0: none yet)
    complete_locked_ids,   \* complete_locked_ids of optimize_layout
    designer_created,      \* InteriorDesignerAgent() has been constructed
    designer_locked,       \* complete_locked of _prepare_objects (Optional)
    parsed_command,        \* the parsed edit command (Optional)
    updated_layout,        \* the layout a chat edit returned (Optional)
    removed_label,         \* the label a remove edit reported (Optional)
    fn_pc,                 \* position of a call of a helper ("idle" without one)
    fn_args,               \* the arguments of the call
    fn_result              \* what the call returned (Optional)

vars == <<pc, room_dimensions, original_layout, current_layout,
          locked_object_ids, constraint_violations, iteration_count,
          max_iterations, initial_score, current_score, proposed_layout,
          explanation, should_continue, error, solver_calls, search_log,
          objects, current_refs,
          api_pc, request_layout, request_locked_ids, http_status,
          complete_locked_ids, designer_created, designer_locked,
          parsed_command, updated_layout, removed_label,
          fn_pc, fn_args, fn_result>>

\* the state of an optimisation run
run_vars == <<pc, room_dimensions, original_layout, current_layout,
              locked_object_ids, constraint_violations, iteration_count,
              max_iterations, initial_score, current_score, proposed_layout,
              explanation, should_continue, error, solver_calls, search_log,
              objects, current_refs>>

\* the state of a call of the API
api_vars == <<api_pc, request_layout, request_locked_ids, http_status,
              complete_locked_ids, designer_created, designer_locked,
              parsed_command, updated_layout, removed_label>>

\* the state of a call of a helper function
fn_vars == <<fn_pc, fn_args, fn_result>>

----------------------------------------------------------------------------
(* Bounds of the model *)

MaxIter == 2

----------------------------------------------------------------------------
(* Program constants *)

MOVE_STEP == 10

SCORE_THRESHOLD == 95

\* float('inf') / float('-inf'): larger than any distance in the model
Infinity == 1000000

\* design defaults of the written specification (4.2, 4.3)
MinClearancePercent == 5

DoorClearance == 30

ViolationPenalty == 10

PreferenceBaseline == 100

ConstraintWeight == 50

WalkabilityWeight == 30

PreferenceWeight == 20

----------------------------------------------------------------------------
(* Generic helpers *)

None == <<>>

Some(v) == <<v>>

Min2(a, b) == IF a <= b THEN a ELSE b

Max2(a, b) == IF a >= b THEN a ELSE b

\* the element of a one-element set; The({f(x) : x \in {v}}) is f applied to
\* the value of v, evaluated once (the strict evaluation of the program)
The(S) == CHOOSE r \in S : TRUE

SeqToSet(s) == {s[i] : i \in 1..Len(s)}

RECURSIVE FilterSeq(_, _)
\* [x for x in s if x \in keep]
FilterSeq(s, keep) ==
    IF s = <<>> THEN <<>>
    ELSE LET rest == FilterSeq(Tail(s), keep)
         IN  IF Head(s) \in keep THEN <<Head(s)>> \o rest ELSE rest

----------------------------------------------------------------------------
(* RoomObject (app.models.room) *)

RoomObject(id, label, bbox, type, is_locked) ==
    [id |-> id, label |-> label, bbox |-> bbox, type |-> type,
     is_locked |-> is_locked]

\* bbox = <<x, y, width, height>>
ObjX(o) == o.bbox[1]
ObjY(o) == o.bbox[2]
ObjW(o) == o.bbox[3]
ObjH(o) == o.bbox[4]

----------------------------------------------------------------------------
(* Geometry primitives (app.core.geometry; specification 4.1) *)

\* variant: the test along x looks at one side only
check_overlap_one_sided(a, b) ==
    /\ ObjX(a) < ObjX(b) + ObjW(b)
    /\ ObjY(a) < ObjY(b) + ObjH(b)
    /\ ObjY(b) < ObjY(a) + ObjH(a)

\* true iff the interiors intersect; touching edges do not overlap
check_overlap(a, b) ==
    /\ ObjX(a) < ObjX(b) + ObjW(b)
    /\ ObjX(b) < ObjX(a) + ObjW(a)
    /\ ObjY(a) < ObjY(b) + ObjH(b)
    /\ ObjY(b) < ObjY(a) + ObjH(a)

\* gap between the boundaries along the room's axes; 0 when touching,
\* negative when overlapping
calculate_clearance(a, b) ==
    LET gap_x == Max2(ObjX(a) - (ObjX(b) + ObjW(b)), ObjX(b) - (ObjX(a) + ObjW(a)))
        gap_y == Max2(ObjY(a) - (ObjY(b) + ObjH(b)), ObjY(b) - (ObjY(a) + ObjH(a)))
    IN  Max2(gap_x, gap_y)

\* true iff the full extent lies inside [0,room_width] x [0,room_height]
check_room_bounds(o, room_width, room_height) ==
    /\ ObjX(o) >= 0
    /\ ObjY(o) >= 0
    /\ ObjX(o) + ObjW(o) <= room_width
    /\ ObjY(o) + ObjH(o) <= room_height

----------------------------------------------------------------------------
(* Layout graph (app.core.room_graph; specification 4.4) *)

\* RoomGraph.add_objects + lock_object for each locked id + get_movable_objects
get_movable_objects(layout, locked_ids) ==
    {layout[i].id : i \in {j \in 1..Len(layout) :
        /\ layout[j].type # "structural"
        /\ ~layout[j].is_locked
        /\ layout[j].id \notin locked_ids}}

\* RoomGraph.lock_object: the locked ids of the graph with lid added
lock_object(locked, lid) == locked \cup {lid}

----------------------------------------------------------------------------
(* Constraint rule set (app.core.constraints; specification 4.2) *)

ConstraintViolation(rule, objects_involved) ==
    [rule |-> rule, objects_involved |-> objects_involved]

MinClearance(room_width, room_height) ==
    (MinClearancePercent * Min2(room_width, room_height)) \div 100

\* the no-overlap rule on one pair
no_overlap_pair(a, b, threshold) ==
    IF /\ ~(a.type = "structural" /\ b.type = "structural")
       /\ calculate_clearance(a, b) < threshold
    THEN <<ConstraintViolation("no_overlap", <<a.id, b.id>>)>>
    ELSE <<>>

RECURSIVE check_no_overlap(_, _, _, _)
\* pairs i < j in row order
check_no_overlap(layout, i, j, threshold) ==
    IF i >= Len(layout) THEN <<>>
    ELSE IF j > Len(layout) THEN check_no_overlap(layout, i + 1, i + 2, threshold)
    ELSE no_overlap_pair(layout[i], layout[j], threshold)
         \o check_no_overlap(layout, i, j + 1, threshold)

RECURSIVE check_bounds(_, _, _, _)
check_bounds(layout, i, room_width, room_height) ==
    IF i > Len(layout) THEN <<>>
    ELSE (IF ~check_room_bounds(layout[i], room_width, room_height)
          THEN <<ConstraintViolation("bounds", <<layout[i].id>>)>>
          ELSE <<>>)
         \o check_bounds(layout, i + 1, room_width, room_height)

\* the door-clearance rule on one movable object o and one object d
door_clearance_pair(o, d) ==
    IF /\ o.type = "movable"
       /\ d.label = "door"
       /\ o.id # d.id
       /\ (check_overlap(o, d) \/ calculate_clearance(o, d) < DoorClearance)
    THEN <<ConstraintViolation("door_clearance", <<o.id, d.id>>)>>
    ELSE <<>>

RECURSIVE check_door_clearance(_, _, _)
\* <<object i, door j>> in row order
check_door_clearance(layout, i, j) ==
    IF i > Len(layout) THEN <<>>
    ELSE IF j > Len(layout) THEN check_door_clearance(layout, i + 1, 1)
    ELSE door_clearance_pair(layout[i], layout[j])
         \o check_door_clearance(layout, i, j + 1)

\* runs every rule and concatenates the results in rule-definition order
check_all_hard_constraints(layout, room_width, room_height) ==
    check_no_overlap(layout, 1, 2, MinClearance(room_width, room_height))
    \o check_bounds(layout, 1, room_width, room_height)
    \o check_door_clearance(layout, 1, 1)

----------------------------------------------------------------------------
(* Scoring engine (app.core.scoring; specification 4.3) *)

\* smallest pairwise clearance of the layout (Infinity without a pair)
MinPairClearance(layout) ==
    The({IF cs = {} THEN Infinity ELSE CHOOSE c \in cs : \A d \in cs : c <= d :
            cs \in {{calculate_clearance(layout[p[1]], layout[p[2]]) :
                       p \in {q \in (1..Len(layout)) \X (1..Len(layout)) :
                                 q[1] < q[2]}}}})

\* flat penalty per violation, floored at 0
ConstraintScore(n) == Max2(0, 100 - ViolationPenalty * n)

\* rewards a larger minimum clearance
WalkabilityScore(min_clearance) == Max2(0, Min2(100, min_clearance))

\* weighted sum clamped to [0, 100]
TotalScore(constraint_score, walkability_score, preference_score) ==
    Max2(0, Min2(100, (ConstraintWeight * constraint_score
                       + WalkabilityWeight * walkability_score
                       + PreferenceWeight * preference_score) \div 100))

score_layout(layout, room_width, room_height) ==
    The({[total_score |-> TotalScore(c, w, PreferenceBaseline),
          constraint_score |-> c,
          walkability_score |-> w,
          preference_score |-> PreferenceBaseline] :
            c \in {ConstraintScore(Len(check_all_hard_constraints(layout,
                                           room_width, room_height)))},
            w \in {WalkabilityScore(MinPairClearance(layout))}})

----------------------------------------------------------------------------
(* Solver: find_better_position (app/agents/solver_node.py) *)

\* Directions to try: right, down, left, up, and diagonals
directions ==
    << <<1, 0>>, <<0, 1>>, <<-1, 0>>, <<0, -1>>,
       <<1, 1>>, <<1, -1>>, <<-1, 1>>, <<-1, -1>> >>

\* variant: the steps double each time
distances_doubling == <<MOVE_STEP, MOVE_STEP * 2, MOVE_STEP * 4, MOVE_STEP * 8>>

distances == <<MOVE_STEP, MOVE_STEP * 2, MOVE_STEP * 5, MOVE_STEP * 10>>

NumCandidates == Len(distances) * Len(directions)

\* k-th pass of the nested loops: distance outer, direction inner
CandidateDistance(k) == distances[((k - 1) \div Len(directions)) + 1]

CandidateDirection(k) == directions[((k - 1) % Len(directions)) + 1]

\* (new_x, new_y) of the k-th candidate
CandidatePosition(obj, k) ==
    <<ObjX(obj) + CandidateDirection(k)[1] * CandidateDistance(k),
      ObjY(obj) + CandidateDirection(k)[2] * CandidateDistance(k)>>

\* test object with the new position
TestObject(obj, pos) ==
    RoomObject(obj.id, obj.label, <<pos[1], pos[2], ObjW(obj), ObjH(obj)>>,
               obj.type, obj.is_locked)

\* Other objects to check against (excluding self)
OtherObjects(obj, all_objects) ==
    SelectSeq(all_objects, LAMBDA o : o.id # obj.id)

RECURSIVE ScanOthers_reject_touching(_, _, _)
\* variant: an object at clearance 0 counts as overlapping
ScanOthers_reject_touching(test_obj, others, min_clearance) ==
    IF others = <<>> THEN [has_overlap |-> FALSE, min_clearance |-> min_clearance]
    ELSE IF \/ check_overlap(test_obj, Head(others))
            \/ calculate_clearance(test_obj, Head(others)) <= 0
         THEN [has_overlap |-> TRUE, min_clearance |-> min_clearance]
         ELSE The({ScanOthers_reject_touching(test_obj, Tail(others), m) :
                      m \in {Min2(min_clearance,
                                  calculate_clearance(test_obj, Head(others)))}})

RECURSIVE ScanOthers(_, _, _)
\* the loop over other_objects: stops at the first overlap, otherwise
\* accumulates the minimum clearance
ScanOthers(test_obj, others, min_clearance) ==
    IF others = <<>> THEN [has_overlap |-> FALSE, min_clearance |-> min_clearance]
    ELSE IF check_overlap(test_obj, Head(others))
         THEN [has_overlap |-> TRUE, min_clearance |-> min_clearance]
         ELSE The({ScanOthers(test_obj, Tail(others), m) :
                      m \in {Min2(min_clearance,
                                  calculate_clearance(test_obj, Head(others)))}})

\* variant: the room-bounds test is missing
EvaluateCandidate_no_bounds(test_obj, other_objects, room_width, room_height) ==
    The({IF scan.has_overlap THEN None ELSE Some(scan.min_clearance) :
            scan \in {ScanOthers(test_obj, other_objects, Infinity)}})

\* variant: a candidate that overlaps is not skipped
EvaluateCandidate_keep_overlap(test_obj, other_objects, room_width, room_height) ==
    IF ~check_room_bounds(test_obj, room_width, room_height) THEN None
    ELSE The({Some(scan.min_clearance) :
                 scan \in {ScanOthers(test_obj, other_objects, Infinity)}})

\* body of the inner loop up to the position score: None when the
\* candidate is skipped (continue), Some(position_score) otherwise
EvaluateCandidate(test_obj, other_objects, room_width, room_height) ==
    IF ~check_room_bounds(test_obj, room_width, room_height) THEN None
    ELSE The({IF scan.has_overlap THEN None ELSE Some(scan.min_clearance) :
                 scan \in {ScanOthers(test_obj, other_objects, Infinity)}})

\* variant: the comparison is reversed, the smallest clearance wins
IsBetter_minimise(position_score, best_score) ==
    best_score = -Infinity \/ position_score < best_score

\* variant: >= instead of >, the last of several equal candidates wins
IsBetter_or_equal(position_score, best_score) == position_score >= best_score

\* if position_score > best_score
IsBetter(position_score, best_score) == position_score > best_score

\* best = <<best_position, best_score>> after a candidate at pos whose
\* evaluation gave ev
UpdateBest(best, pos, ev) ==
    IF ev # None /\ IsBetter(ev[1], best[2])
    THEN <<Some(pos), ev[1]>>
    ELSE best

\* one pass of the inner loop: the new <<best_position, best_score>>
TryCandidate(k, best, obj, other_objects, room_width, room_height) ==
    The({The({UpdateBest(best, pos, ev) :
                 ev \in {EvaluateCandidate(TestObject(obj, pos), other_objects,
                                           room_width, room_height)}}) :
            pos \in {CandidatePosition(obj, k)}})

RECURSIVE SearchLoop(_, _, _, _, _, _)
SearchLoop(k, best, obj, other_objects, room_width, room_height) ==
    IF k > NumCandidates THEN best[1]
    ELSE The({SearchLoop(k + 1, best2, obj, other_objects, room_width, room_height) :
                 best2 \in {TryCandidate(k, best, obj, other_objects,
                                         room_width, room_height)}})

\* returns None or Some(<<new_x, new_y>>)
find_better_position(obj, all_objects, room_width, room_height, locked_ids) ==
    The({SearchLoop(1, <<None, -Infinity>>, o, other_objects,
                    room_width, room_height) :
            o \in {obj}, other_objects \in {OtherObjects(obj, all_objects)}})

----------------------------------------------------------------------------
(* Object identity                                                         *)
(* A layout is a list of references to RoomObject instances. The instances *)
(* of the caller's list are 1 .. n; original_layout and current_layout     *)
(* start as objects.copy(): new lists of the same instances. A write to an *)
(* instance is seen through every list that refers to it.                  *)

\* the instances of the caller's list, which original_layout refers to
InputRefs(layout) == [i \in 1..Len(layout) |-> i]

\* an instance number above every one in use
FreshBase(refs, n) ==
    IF refs = <<>> THEN n
    ELSE Max2(n, CHOOSE r \in SeqToSet(refs) : \A q \in SeqToSet(refs) : q <= r)

\* variant: a copy of the list, not of the objects (list.copy())
deepcopy_shallow(refs, n) == refs

\* deepcopy(state["current_layout"]): a new instance for every object
deepcopy(refs, n) == [i \in 1..Len(refs) |-> FreshBase(refs, n) + i]

\* the values seen through the list view (instances view_refs) after the
\* pass has written the values work to the instances work_refs
WriteThrough(view, view_refs, work_refs, work) ==
    [i \in 1..Len(view) |->
        IF \E j \in 1..Len(work_refs) : work_refs[j] = view_refs[i]
        THEN work[CHOOSE j \in 1..Len(work_refs) : work_refs[j] = view_refs[i]]
        ELSE view[i]]

----------------------------------------------------------------------------
(* Solver: one pass (solver_node) *)

\* variant: the filter on movable_ids is dropped
objects_to_move_unfiltered(violation, movable_ids) ==
    violation.objects_involved

\* Find movable objects in this violation
objects_to_move(violation, movable_ids) ==
    FilterSeq(violation.objects_involved, movable_ids)

\* next((o for o in current_layout if o.id == obj_id), None), as an index
\* (0 when there is none)
FindObject(layout, obj_id) ==
    LET hits == {i \in 1..Len(layout) : layout[i].id = obj_id}
    IN  IF hits = {} THEN 0 ELSE CHOOSE i \in hits : \A j \in hits : i <= j

\* variant: the moved object is flagged locked as well
MoveObject_and_lock(layout, i, new_pos) ==
    [layout EXCEPT ![i].bbox = <<new_pos[1], new_pos[2], @[3], @[4]>>,
                   ![i].is_locked = TRUE]

\* obj.bbox[0] = new_pos[0]; obj.bbox[1] = new_pos[1]
MoveObject(layout, i, new_pos) ==
    [layout EXCEPT ![i].bbox = <<new_pos[1], new_pos[2], @[3], @[4]>>]

\* st = [layout, log]; log records every find_better_position call
\* the state after the search for object i returned new_pos: if new_pos: ...
Searched(obj_id, violation, st, i, new_pos) ==
    [layout |-> IF new_pos # None
                THEN MoveObject(st.layout, i, new_pos[1])
                ELSE st.layout,
     log |-> Append(st.log, [id |-> obj_id, index |-> i, violation |-> violation,
                             before |-> st.layout, result |-> new_pos])]

\* one pass of the loop over objects_to_move
FixObject(obj_id, violation, st, room_width, room_height, locked_ids) ==
    The({IF i = 0 THEN st
         ELSE The({Searched(obj_id, violation, st, i, new_pos) :
                      new_pos \in {find_better_position(st.layout[i], st.layout,
                                       room_width, room_height, locked_ids)}}) :
            i \in {FindObject(st.layout, obj_id)}})

RECURSIVE FixObjects(_, _, _, _, _, _)
\* for obj_id in objects_to_move: ...
FixObjects(ids, violation, st, room_width, room_height, locked_ids) ==
    IF ids = <<>> THEN st
    ELSE The({FixObjects(Tail(ids), violation, st2, room_width, room_height,
                         locked_ids) :
                 st2 \in {FixObject(Head(ids), violation, st, room_width,
                                    room_height, locked_ids)}})

RECURSIVE FixViolations(_, _, _, _, _, _)
\* for violation in violations: ...
FixViolations(violations, movable_ids, st, room_width, room_height, locked_ids) ==
    IF violations = <<>> THEN st
    ELSE The({FixViolations(Tail(violations), movable_ids, st2, room_width,
                            room_height, locked_ids) :
                 st2 \in {FixObjects(objects_to_move(Head(violations), movable_ids),
                                     Head(violations), st, room_width,
                                     room_height, locked_ids)}})

\* the orders in which iterating over the set S can yield its elements
\* (the order of a set of strings differs from process to process)
Orders(S) ==
    {o \in [1..Cardinality(S) -> S] :
        \A i, j \in 1..Cardinality(S) : i # j => o[i] # o[j]}

\* variant: the loop ends after the first id
lock_all_first_only(order, locked) ==
    IF order = <<>> THEN locked ELSE lock_object(locked, Head(order))

RECURSIVE lock_all(_, _)
\* for lid in locked_ids: graph.lock_object(lid)
lock_all(order, locked) ==
    IF order = <<>> THEN locked
    ELSE lock_all(Tail(order), lock_object(locked, Head(order)))

\* variant: the pass is counted twice
NextIteration_twice(n) == n + 2

\* iteration_count of the returned update
NextIteration(n) == n + 1

\* the entries of the log that moved an object (changes_made)
ChangesMade(log) == SelectSeq(log, LAMBDA e : e.result # None)

solver_node ==
    /\ pc = "solver"
    /\ \E locked_ids \in {SeqToSet(locked_object_ids)} :
       \E order \in Orders(locked_ids) :
       \E movable_ids \in {get_movable_objects(current_layout,
                                                lock_all(order, {}))} :
       \E st \in {FixViolations(constraint_violations, movable_ids,
                               [layout |-> current_layout, log |-> <<>>],
                               room_dimensions[1], room_dimensions[2], locked_ids)} :
       \E work_refs \in {deepcopy(current_refs, Len(objects))} :
           IF constraint_violations = <<>>
           THEN /\ explanation' = "No violations to fix."
                /\ search_log' = <<>>
                /\ UNCHANGED <<current_layout, current_refs, original_layout,
                               objects>>
           ELSE /\ current_layout' = st.layout
                /\ current_refs' = work_refs
                /\ original_layout' =
                       WriteThrough(original_layout, InputRefs(original_layout),
                                    work_refs, st.layout)
                /\ objects' = WriteThrough(objects, InputRefs(objects),
                                           work_refs, st.layout)
                /\ search_log' = st.log
                /\ explanation' = IF ChangesMade(st.log) # <<>>
                                  THEN "Made change(s)."
                                  ELSE "Could not find a better position for the furniture."
    /\ iteration_count' = NextIteration(iteration_count)
    /\ solver_calls' = solver_calls + 1
    /\ pc' = "constraint"
    /\ UNCHANGED <<room_dimensions, locked_object_ids,
                   constraint_violations, max_iterations, initial_score,
                   current_score, proposed_layout, should_continue, error>>
    /\ UNCHANGED <<api_vars, fn_vars>>

----------------------------------------------------------------------------
(* Constraint node and router (constraint_node.py, graph.py) *)

\* variant: iteration and score are tested, the violations are not
ShouldContinue_no_violation_test(violations, iteration, max_iter, score) ==
    /\ iteration < max_iter
    /\ score.total_score < SCORE_THRESHOLD

\* variant: one pass too many (<= instead of <)
ShouldContinue_off_by_one(violations, iteration, max_iter, score) ==
    /\ Len(violations) > 0
    /\ iteration <= max_iter
    /\ score.total_score < SCORE_THRESHOLD

\* variant: the score threshold is not consulted
ShouldContinue_no_threshold(violations, iteration, max_iter, score) ==
    /\ Len(violations) > 0
    /\ iteration < max_iter

\* variant: decides on the violations held in the run state, not on the
\* violations just found
ShouldContinue_stale_violations(violations, iteration, max_iter, score) ==
    /\ Len(constraint_violations) > 0
    /\ iteration < max_iter
    /\ score.total_score < SCORE_THRESHOLD

\* Stop if: no violations, max iterations reached, or score is good enough
ShouldContinue(violations, iteration, max_iter, score) ==
    /\ Len(violations) > 0
    /\ iteration < max_iter
    /\ score.total_score < SCORE_THRESHOLD

\* variant: the baseline is overwritten by every evaluation
InitialScoreUpdate_always(initial, score) == Some(score)

\* Set initial score on first iteration
InitialScoreUpdate(initial, score) ==
    IF initial = None THEN Some(score) ELSE initial

\* reducer of the constraint_violations channel:
\* Annotated[List[ConstraintViolation], operator.add]
operator_add(old, update) == old \o update

\* router of the conditional edge after the constraint node
should_continue_optimization(flag) == IF flag THEN "solver" ELSE "render"

constraint_node ==
    /\ pc = "constraint"
    /\ \E violations \in {check_all_hard_constraints(current_layout,
                                room_dimensions[1], room_dimensions[2])} :
       \E score \in {score_layout(current_layout,
                                room_dimensions[1], room_dimensions[2])} :
       \E cont \in {ShouldContinue(violations, iteration_count, max_iterations,
                                   score)} :
           /\ constraint_violations' = operator_add(constraint_violations, violations)
           /\ current_score' = Some(score)
           /\ initial_score' = InitialScoreUpdate(initial_score, score)
           /\ should_continue' = cont
           /\ pc' = should_continue_optimization(cont)
    /\ UNCHANGED <<room_dimensions, original_layout, current_layout,
                   locked_object_ids, iteration_count, max_iterations,
                   proposed_layout, explanation, error, solver_calls, search_log,
                   objects, current_refs>>
    /\ UNCHANGED <<api_vars, fn_vars>>

vision_node ==
    /\ pc = "vision"
    /\ explanation' = "Vision analysis complete (placeholder)"
    /\ pc' = "constraint"
    /\ UNCHANGED <<room_dimensions, original_layout, current_layout,
                   locked_object_ids, constraint_violations, iteration_count,
                   max_iterations, initial_score, current_score, proposed_layout,
                   should_continue, error, solver_calls, search_log,
                   objects, current_refs>>
    /\ UNCHANGED <<api_vars, fn_vars>>

render_node ==
    /\ pc = "render"
    /\ proposed_layout' = Some(current_layout)
    /\ explanation' = "Optimization Summary"
    /\ pc' = "END"
    /\ UNCHANGED <<room_dimensions, original_layout, current_layout,
                   locked_object_ids, constraint_violations, iteration_count,
                   max_iterations, initial_score, current_score,
                   should_continue, error, solver_calls, search_log,
                   objects, current_refs>>
    /\ UNCHANGED <<api_vars, fn_vars>>

----------------------------------------------------------------------------
(* Inputs of run_optimization and the initial state *)

Rooms == {<<300, 400>>, <<300, 140>>}

DoorBoxes == {<<0, 100, 20, 80>>, <<0, 20, 20, 80>>}

BedBoxes == {<<30, 100, 100, 200>>, <<150, 200, 100, 150>>,
             <<0, 0, 300, 50>>, <<100, 50, 100, 200>>}

DeskBoxes == {<<25, 100, 80, 50>>, <<100, 40, 50, 50>>,
              <<200, 50, 80, 50>>, <<-10, 100, 80, 50>>}

LockedIdChoices == {<<>>, <<"bed_1">>, <<"desk_1">>, <<"door_1", "bed_1">>}

\* an absent object is None
Doors == {None} \cup {Some(RoomObject("door_1", "door", b, "structural", FALSE)) :
                         b \in DoorBoxes}

Beds == {None} \cup {Some(RoomObject("bed_1", "bed", b, "movable", l)) :
                        b \in BedBoxes, l \in BOOLEAN}

Desks == {None} \cup {Some(RoomObject("desk_1", "desk", b, "movable", FALSE)) :
                         b \in DeskBoxes}

InputLayouts == {d \o b \o k : d \in Doors, b \in Beds, k \in Desks}

\* no call of the API is under way
ApiIdle ==
    /\ api_pc = "idle"
    /\ request_layout = <<>>
    /\ request_locked_ids = <<>>
    /\ http_status = 0
    /\ complete_locked_ids = {}
    /\ designer_created = FALSE
    /\ designer_locked = None
    /\ parsed_command = None
    /\ updated_layout = None
    /\ removed_label = None

\* no call of a helper function is under way
FnIdle ==
    /\ fn_pc = "idle"
    /\ fn_args = <<>>
    /\ fn_result = None

\* create_initial_state, called by run_optimization
Init ==
    /\ pc = "vision"
    /\ room_dimensions \in Rooms
    /\ objects \in InputLayouts
    /\ original_layout = objects
    /\ current_layout = objects
    /\ current_refs = InputRefs(objects)
    /\ locked_object_ids \in LockedIdChoices
    /\ constraint_violations = <<>>
    /\ iteration_count = 0
    /\ max_iterations \in 0..MaxIter
    /\ initial_score = None
    /\ current_score = None
    /\ proposed_layout = None
    /\ explanation = ""
    /\ should_continue = TRUE
    /\ error = None
    /\ solver_calls = 0
    /\ search_log = <<>>
    /\ ApiIdle
    /\ FnIdle

Next ==
    \/ vision_node
    \/ constraint_node
    \/ solver_node
    \/ render_node

Spec == Init /\ [][Next]_vars

\* the graph runtime runs the next node whenever there is one
FairSpec == Spec /\ WF_vars(Next)

----------------------------------------------------------------------------
(* POST /optimize (app/routes/optimize.py) and the designer's preparation   *)
(* (app/agents/designer_node.py)                                            *)

\* variant: only structural objects are added, the locked flag is ignored
optimize_lock_step_structural_only(obj, user_locked_ids, ids) ==
    [ids |-> IF obj.type = "structural" THEN ids \cup {obj.id} ELSE ids,
     obj |-> [obj EXCEPT !.is_locked =
                 @ \/ obj.type = "structural" \/ obj.id \in user_locked_ids]]

\* one turn of the loop over request.current_layout: the locked ids so far
\* and the object, whose is_locked is set in place
optimize_lock_step(obj, user_locked_ids, ids) ==
    LET structural == obj.type = "structural"
        ids1 == IF structural THEN ids \cup {obj.id} ELSE ids
        flag1 == obj.is_locked \/ structural
        ids2 == IF flag1 THEN ids1 \cup {obj.id} ELSE ids1
        flag2 == flag1 \/ obj.id \in user_locked_ids
    IN  [ids |-> ids2, obj |-> [obj EXCEPT !.is_locked = flag2]]

RECURSIVE optimize_lock_loop(_, _, _, _)
\* for obj in request.current_layout: ...
optimize_lock_loop(layout, i, user_locked_ids, ids) ==
    IF i > Len(layout) THEN [ids |-> ids, layout |-> layout]
    ELSE LET step == optimize_lock_step(layout[i], user_locked_ids, ids)
         IN  optimize_lock_loop([layout EXCEPT ![i] = step.obj], i + 1,
                                user_locked_ids, step.ids)

\* variant: counts the objects of kind movable, locked or not
movable_count_by_type(layout, locked) ==
    Cardinality({i \in 1..Len(layout) : layout[i].type # "structural"})

\* sum(1 for o in request.current_layout if o.id not in complete_locked_ids)
movable_count(layout, locked) ==
    Cardinality({i \in 1..Len(layout) : layout[i].id \notin locked})

\* complete_locked of _prepare_objects
prepare_complete_locked(layout, locked_ids) ==
    locked_ids \cup {layout[i].id : i \in {j \in 1..Len(layout) :
                        layout[j].type = "structural" \/ layout[j].is_locked}}

\* _prepare_objects: complete_locked and the ids of the movable and of the
\* structural list, in layout order
prepare_objects(layout, locked_ids) ==
    LET complete_locked == prepare_complete_locked(layout, locked_ids)
        ids == [i \in 1..Len(layout) |-> layout[i].id]
    IN  [complete_locked |-> complete_locked,
         movable |-> SelectSeq(ids, LAMBDA id : id \notin complete_locked),
         structural |-> SelectSeq(ids, LAMBDA id : id \in complete_locked)]

\* what the calls of the generative model inside generate_layout_variations
\* lead to: variations, a ValueError, or another exception
DesignerOutcomes == {"variations", "ValueError", "Exception"}

\* status of the response for an outcome of the designer
StatusOf(outcome) ==
    CASE outcome = "variations" -> 200
      [] outcome = "ValueError" -> 400
      [] OTHER -> 500

\* optimize_layout; api_key_set: InteriorDesignerAgent() finds its key
optimize_layout ==
    /\ api_pc = "request"
    /\ \E api_key_set \in BOOLEAN, outcome \in DesignerOutcomes :
       \E st \in {optimize_lock_loop(request_layout, 1,
                                     SeqToSet(request_locked_ids),
                                     SeqToSet(request_locked_ids))} :
          /\ request_layout' = st.layout
          /\ complete_locked_ids' = st.ids
          /\ IF movable_count(st.layout, st.ids) = 0
             THEN /\ http_status' = 400
                  /\ designer_created' = FALSE
                  /\ designer_locked' = None
             ELSE IF ~api_key_set
             THEN /\ http_status' = StatusOf("ValueError")
                  /\ designer_created' = FALSE
                  /\ designer_locked' = None
             ELSE \E prep \in {prepare_objects(st.layout, st.ids)} :
                  /\ designer_created' = TRUE
                  /\ designer_locked' = Some(prep.complete_locked)
                  /\ http_status' = IF prep.movable = <<>>
                                    THEN StatusOf("ValueError")
                                    ELSE StatusOf(outcome)
    /\ api_pc' = "optimize_done"
    /\ UNCHANGED <<request_locked_ids, parsed_command, updated_layout,
                   removed_label>>
    /\ UNCHANGED <<run_vars, fn_vars>>

\* generate_layout_variations called with the locked ids of the caller as
\* they are (designer_node): _prepare_objects, then the generative model
generate_layout_variations ==
    /\ api_pc = "request"
    /\ \E prep \in {prepare_objects(request_layout, SeqToSet(request_locked_ids))} :
          /\ designer_created' = TRUE
          /\ designer_locked' = Some(prep.complete_locked)
    /\ api_pc' = "designer_done"
    /\ UNCHANGED <<request_layout, request_locked_ids, http_status,
                   complete_locked_ids, parsed_command, updated_layout,
                   removed_label>>
    /\ UNCHANGED <<run_vars, fn_vars>>

----------------------------------------------------------------------------
(* Chat editor: layout edits (app/agents/chat_editor_node.py) *)

\* distance_map.get(params.get("distance", "medium"), 10)
distance_map(distance) ==
    CASE distance = "small" -> 5
      [] distance = "medium" -> 10
      [] distance = "large" -> 20
      [] OTHER -> 10

\* the bbox of the target after a move
move_bbox(bbox, direction, distance) ==
    CASE direction = "left" -> [bbox EXCEPT ![1] = Max2(0, bbox[1] - distance)]
      [] direction = "right" ->
             [bbox EXCEPT ![1] = Min2(100 - bbox[3], bbox[1] + distance)]
      [] direction = "up" -> [bbox EXCEPT ![2] = Max2(0, bbox[2] - distance)]
      [] direction = "down" ->
             [bbox EXCEPT ![2] = Min2(100 - bbox[4], bbox[2] + distance)]
      [] OTHER -> bbox

\* new_obj of one turn of the loop over current_layout
edit_object(obj, is_target, command) ==
    IF is_target /\ command.action = "move"
    THEN [obj EXCEPT !.bbox = move_bbox(@, command.direction,
                                        distance_map(command.distance))]
    ELSE IF is_target /\ command.action = "rotate"
    THEN [obj EXCEPT !.orientation = (@ + command.rotation) % 360]
    ELSE obj

\* index of target_obj in the layout, 0 when there is none
target_index(command, layout) ==
    IF command.target_object_id = None THEN 0
    ELSE FindObject(layout, command.target_object_id[1])

\* _apply_layout_edit: the updated layout
apply_layout_edit_result(command, layout) ==
    LET t == target_index(command, layout)
    IN  IF t = 0 /\ command.action \in {"move", "rotate"} THEN layout
        ELSE [i \in 1..Len(layout) |->
                 edit_object(layout[i], t # 0 /\ layout[i].id = layout[t].id,
                             command)]

\* the commands the parser can hand to _apply_layout_edit
Commands ==
    [target_object_id : {None, Some("door_1"), Some("bed_1"), Some("desk_1"),
                         Some("lamp_9")},
     action : {"move", "rotate", "style"},
     direction : {"left", "right", "up", "down", ""},
     distance : {"small", "medium", "large"},
     rotation : {90}]

\* _apply_layout_edit, called by process_edit_command for a layout edit
apply_layout_edit ==
    /\ api_pc = "request"
    /\ \E command \in Commands :
          /\ parsed_command' = Some(command)
          /\ updated_layout' = Some(apply_layout_edit_result(command, request_layout))
    /\ api_pc' = "edit_done"
    /\ UNCHANGED <<request_layout, request_locked_ids, http_status,
                   complete_locked_ids, designer_created, designer_locked,
                   removed_label>>
    /\ UNCHANGED <<run_vars, fn_vars>>

----------------------------------------------------------------------------
(* Chat editor: remove edits (app/agents/chat_editor_node.py) *)

\* str.lower() on the labels, ids and descriptions of the model (all of them
\* lower case but one)
lower(s) == IF s = "Armchair" THEN "armchair" ELSE s

\* the labels and ids that occur in a lower-case description
Fragments(desc) ==
    CASE desc = "remove the bed" -> {"bed"}
      [] desc = "remove desk_1" -> {"desk", "desk_1"}
      [] desc = "remove the bed next to the door" -> {"bed", "door"}
      [] desc = "take out the armchair" -> {"armchair", "chair"}
      [] OTHER -> {}

\* s in desc
contains(desc, s) == s \in Fragments(desc)

\* the fallback loop: index of the first object whose label or id occurs in
\* the description, 0 when there is none
match_description(desc, layout) ==
    LET hits == {i \in 1..Len(layout) :
                    \/ contains(desc, lower(layout[i].label))
                    \/ contains(desc, lower(layout[i].id))}
    IN  IF hits = {} THEN 0 ELSE CHOOSE i \in hits : \A j \in hits : i <= j

\* index of target_obj, 0 when not target_obj
remove_target(command, layout) ==
    IF target_index(command, layout) # 0 THEN target_index(command, layout)
    ELSE match_description(lower(command.natural_description), layout)

\* variant: structural objects are not protected
apply_remove_edit_result_any_type(command, layout) ==
    LET t == remove_target(command, layout)
    IN  IF t = 0 THEN [layout |-> layout, removed_label |-> None]
        ELSE [layout |-> SelectSeq(layout, LAMBDA o : o.id # layout[t].id),
              removed_label |-> Some(layout[t].label)]

\* _apply_remove_edit: updated_layout and removed_label
apply_remove_edit_result(command, layout) ==
    LET t == remove_target(command, layout)
    IN  IF t = 0 THEN [layout |-> layout, removed_label |-> None]
        ELSE IF layout[t].type = "structural"
        THEN [layout |-> layout, removed_label |-> None]
        ELSE [layout |-> SelectSeq(layout, LAMBDA o : o.id # layout[t].id),
              removed_label |-> Some(layout[t].label)]

\* the commands the parser can hand to _apply_remove_edit
RemoveCommands ==
    [target_object_id : {None, Some("door_1"), Some("bed_1"), Some("chair_1"),
                         Some("lamp_9")},
     action : {"remove"},
     natural_description : {"", "remove the bed", "remove desk_1",
                            "remove the bed next to the door",
                            "take out the armchair"}]

\* _apply_remove_edit, called by process_edit_command for a remove edit
apply_remove_edit ==
    /\ api_pc = "request"
    /\ \E command \in RemoveCommands :
       \E result \in {apply_remove_edit_result(command, request_layout)} :
          /\ parsed_command' = Some(command)
          /\ updated_layout' = Some(result.layout)
          /\ removed_label' = result.removed_label
    /\ api_pc' = "remove_done"
    /\ UNCHANGED <<request_layout, request_locked_ids, http_status,
                   complete_locked_ids, designer_created, designer_locked>>
    /\ UNCHANGED <<run_vars, fn_vars>>

----------------------------------------------------------------------------
(* Calls of the API: inputs and specification *)

\* a RoomObject with its orientation (percentage coordinates)
ApiObject(id, label, bbox, type, is_locked, orientation) ==
    [id |-> id, label |-> label, bbox |-> bbox, type |-> type,
     is_locked |-> is_locked, orientation |-> orientation]

ApiDoors == {None, Some(ApiObject("door_1", "door", <<0, 40, 5, 20>>,
                                  "structural", FALSE, 0))}

ApiBeds == {None} \cup {Some(ApiObject("bed_1", "bed", b, "movable", l, 0)) :
                           b \in {<<10, 10, 30, 40>>, <<0, 55, 30, 40>>},
                           l \in BOOLEAN}

ApiDesks == {None} \cup {Some(ApiObject("desk_1", "desk", b, "movable", FALSE, 270)) :
                            b \in {<<60, 70, 35, 20>>, <<70, 5, 30, 20>>}}

ApiChairs == {None} \cup {Some(ApiObject("chair_1", l, <<40, 30, 10, 10>>,
                                         "movable", FALSE, 0)) :
                             l \in {"chair", "Armchair"}}

ApiLayouts == {d \o b \o k \o c : d \in ApiDoors, b \in ApiBeds, k \in ApiDesks,
                                   c \in ApiChairs}

ApiLockedIdChoices == {<<>>, <<"bed_1">>, <<"desk_1">>, <<"bed_1", "desk_1">>}

\* no optimisation run is under way
RunIdle ==
    /\ pc = "idle"
    /\ room_dimensions = <<100, 100>>
    /\ original_layout = <<>>
    /\ current_layout = <<>>
    /\ locked_object_ids = <<>>
    /\ constraint_violations = <<>>
    /\ iteration_count = 0
    /\ max_iterations = 0
    /\ initial_score = None
    /\ current_score = None
    /\ proposed_layout = None
    /\ explanation = ""
    /\ should_continue = TRUE
    /\ error = None
    /\ solver_calls = 0
    /\ search_log = <<>>
    /\ objects = <<>>
    /\ current_refs = <<>>

\* a request has arrived
ApiInit ==
    /\ RunIdle
    /\ api_pc = "request"
    /\ request_layout \in ApiLayouts
    /\ request_locked_ids \in ApiLockedIdChoices
    /\ http_status = 0
    /\ complete_locked_ids = {}
    /\ designer_created = FALSE
    /\ designer_locked = None
    /\ parsed_command = None
    /\ updated_layout = None
    /\ removed_label = None
    /\ FnIdle

ApiNext ==
    \/ optimize_layout
    \/ generate_layout_variations
    \/ apply_layout_edit
    \/ apply_remove_edit

ApiSpec == ApiInit /\ [][ApiNext]_vars

----------------------------------------------------------------------------
(* Python floats: the IEEE 754 binary64 arithmetic the conversions use.     *)
(* A positive float is [m, e]: m its 53 significant bits, most significant  *)
(* first, read as an integer, and the value is m * 2^e.                     *)

\* number of significant bits of a binary64
Precision == 53

Zero == [m |-> <<>>, e |-> 0]

RECURSIVE Normalise(_, _, _)
\* <<r, s>> with r = v * 2^s, the first r that reaches d
Normalise(r, d, s) == IF r >= d THEN <<r, s>> ELSE Normalise(2 * r, d, s + 1)

RECURSIVE QuotientBits(_, _, _, _)
\* long division: n more bits of r / d for r < d; <<bits, remainder>>
QuotientBits(r, d, n, acc) ==
    IF n = 0 THEN <<acc, r>>
    ELSE IF 2 * r >= d
         THEN QuotientBits(2 * r - d, d, n - 1, Append(acc, 1))
         ELSE QuotientBits(2 * r, d, n - 1, Append(acc, 0))

RECURSIVE Increment(_, _)
\* bits + 1, the carry entering at position i
Increment(bits, i) ==
    IF i = 0 THEN <<1>> \o bits
    ELSE IF bits[i] = 0 THEN [bits EXCEPT ![i] = 1]
         ELSE Increment([bits EXCEPT ![i] = 0], i - 1)

\* bits * 2^e (bits starts with 1), inexact already when sticky, rounded to
\* Precision bits, ties to even
RoundToNearestEven(bits, e, sticky) ==
    IF Len(bits) <= Precision
    THEN [m |-> bits \o [i \in 1..(Precision - Len(bits)) |-> 0],
          e |-> e - (Precision - Len(bits))]
    ELSE The({IF Len(r) > Precision
              THEN [m |-> SubSeq(r, 1, Precision),
                    e |-> e + (Len(bits) - Precision) + 1]
              ELSE [m |-> r, e |-> e + (Len(bits) - Precision)] :
                 r \in {IF /\ bits[Precision + 1] = 1
                           /\ \/ sticky
                              \/ \E i \in (Precision + 2)..Len(bits) : bits[i] = 1
                              \/ bits[Precision] = 1
                        THEN Increment(SubSeq(bits, 1, Precision), Precision)
                        ELSE SubSeq(bits, 1, Precision)}})

\* v / d for integers 0 <= v <= d: the correctly rounded quotient
float_div(v, d) ==
    IF v = 0 THEN Zero
    ELSE The({The({RoundToNearestEven(q[1], -(n[2]) - Precision, q[2] # 0) :
                      q \in {QuotientBits(n[1] - d, d, Precision, <<1>>)}}) :
                 n \in {Normalise(v, d, 0)}})

RECURSIVE NatBits(_, _)
\* the binary digits of n in front of acc, no leading zero
NatBits(n, acc) ==
    IF n = 0 THEN acc ELSE NatBits(n \div 2, <<n % 2>> \o acc)

RECURSIVE MulBits(_, _, _, _, _)
\* bits * w, digit by digit from the least significant one
MulBits(bits, i, w, carry, acc) ==
    IF i = 0 THEN NatBits(carry, acc)
    ELSE MulBits(bits, i - 1, w, (bits[i] * w + carry) \div 2,
                 <<(bits[i] * w + carry) % 2>> \o acc)

\* f * w for an integer w >= 0: the exact product, rounded
float_mul_int(f, w) ==
    IF f = Zero \/ w = 0 THEN Zero
    ELSE RoundToNearestEven(MulBits(f.m, Precision, w, 0, <<>>), f.e, FALSE)

RECURSIVE BitsToNat(_, _)
BitsToNat(bits, acc) ==
    IF bits = <<>> THEN acc ELSE BitsToNat(Tail(bits), 2 * acc + Head(bits))

\* int(f): truncation towards zero (f below 2^Precision)
int_of(f) ==
    IF f = Zero \/ Precision + f.e <= 0 THEN 0
    ELSE BitsToNat(SubSeq(f.m, 1, Min2(Precision, Precision + f.e)), 0)

----------------------------------------------------------------------------
(* Box conversion (app/core/vision_service.py, app/agents/vision_node.py) *)

\* int(v / 1000 * size)
to_pixels(v, size) == int_of(float_mul_int(float_div(v, 1000), size))

\* convert_box_2d_to_bbox of vision_service; box_2d = <<ymin, xmin, ymax, xmax>>
convert_box_2d_to_bbox(box_2d, image_width, image_height) ==
    <<to_pixels(box_2d[2], image_width),
      to_pixels(box_2d[1], image_height),
      to_pixels(box_2d[4] - box_2d[2], image_width),
      to_pixels(box_2d[3] - box_2d[1], image_height)>>

\* max(0, min(1000, v))
clamp(v) == Max2(0, Min2(1000, v))

\* VisionAgent._convert_box_2d_to_bbox: clamps and keeps a minimum size
VisionAgent_convert_box_2d_to_bbox(box_2d, image_width, image_height) ==
    <<to_pixels(clamp(box_2d[2]), image_width),
      to_pixels(clamp(box_2d[1]), image_height),
      Max2(1, to_pixels(clamp(box_2d[4]) - clamp(box_2d[2]), image_width)),
      Max2(1, to_pixels(clamp(box_2d[3]) - clamp(box_2d[1]), image_height))>>

\* parse_gemini_response: one detected object is converted
convert_box ==
    /\ fn_pc = "convert"
    /\ fn_result' = Some(convert_box_2d_to_bbox(fn_args.box_2d,
                                                fn_args.image_width,
                                                fn_args.image_height))
    /\ fn_pc' = "service_done"
    /\ UNCHANGED <<fn_args, run_vars, api_vars>>

\* VisionAgent: one detected object is converted
agent_convert_box ==
    /\ fn_pc = "convert"
    /\ fn_result' = Some(VisionAgent_convert_box_2d_to_bbox(fn_args.box_2d,
                                                           fn_args.image_width,
                                                           fn_args.image_height))
    /\ fn_pc' = "agent_done"
    /\ UNCHANGED <<fn_args, run_vars, api_vars>>

----------------------------------------------------------------------------
(* Shopping: fallback budget allocation (app/agents/shopping_node.py).      *)
(* Amounts are in thousandths of a dollar, so that budgets with and without *)
(* a fraction of a cent can be told apart.                                  *)

\* round(x, 2) for x = num / den thousandths (den > 0): the nearest whole
\* number of cents; where x lies exactly between two of them the binary
\* representation of x decides, tie_up says which way
round_cents(num, den, tie_up) ==
    LET mag == IF num < 0 THEN -num ELSE num
        cents == mag \div (10 * den)
        rest == mag - cents * 10 * den
        up == rest > 5 * den \/ (rest = 5 * den /\ tie_up)
        rounded == 10 * (IF up THEN cents + 1 ELSE cents)
    IN  IF num < 0 THEN -rounded ELSE rounded

\* item["label"].lower().split("_")[0]
base_label(label) ==
    IF lower(label) = "office_chair" THEN "office" ELSE lower(label)

\* weight_map.get(label, 2)
weight_map(label) ==
    CASE label \in {"bed", "sofa", "couch"} -> 5
      [] label \in {"desk", "wardrobe", "dresser", "dining_table", "table"} -> 3
      [] label \in {"chair", "nightstand", "bookshelf", "office_chair",
                    "coffee_table"} -> 2
      [] label \in {"lamp", "rug", "plant", "artwork"} -> 1
      [] OTHER -> 2

\* weights of the items
item_weights(movable_items) ==
    [i \in 1..Len(movable_items) |-> weight_map(base_label(movable_items[i].label))]

RECURSIVE SumSeq(_)
\* sum(...)
SumSeq(s) == IF s = <<>> THEN 0 ELSE Head(s) + SumSeq(Tail(s))

\* budget of the last item: round(total_budget - running_total, 2)
last_budget(total_budget, running_total, tie_up) ==
    round_cents(total_budget - running_total, 1, tie_up)

RECURSIVE allocate_loop(_, _, _, _, _, _, _)
\* the loop over movable_items from item i on; result so far in acc
allocate_loop(movable_items, weights, total_weight, total_budget, ties, i, acc) ==
    IF i > Len(movable_items) THEN acc.result
    ELSE The({allocate_loop(movable_items, weights, total_weight, total_budget, ties,
                            i + 1,
                            [result |-> Append(acc.result,
                                 [id |-> movable_items[i].id,
                                  label |-> movable_items[i].label,
                                  search_query |-> <<"modern",
                                      base_label(movable_items[i].label),
                                      "furniture">>,
                                  budget |-> budget]),
                             running_total |->
                                 IF i = Len(movable_items) THEN acc.running_total
                                 ELSE acc.running_total + budget]) :
                 budget \in {IF i = Len(movable_items)
                             THEN last_budget(total_budget, acc.running_total,
                                              ties[i])
                             ELSE round_cents(total_budget * weights[i],
                                              total_weight, ties[i])}})

\* _fallback_allocate; ties[i]: how a tie of item i is rounded
fallback_allocate(movable_items, total_budget, ties) ==
    allocate_loop(movable_items, item_weights(movable_items),
                  IF SumSeq(item_weights(movable_items)) = 0 THEN 1
                  ELSE SumSeq(item_weights(movable_items)),
                  total_budget, ties, 1, [result |-> <<>>, running_total |-> 0])

\* movable_items of find_products
movable_items_of(layout) ==
    [i \in 1..Len(SelectSeq(layout, LAMBDA o : o.type = "movable")) |->
        [id |-> SelectSeq(layout, LAMBDA o : o.type = "movable")[i].id,
         label |-> SelectSeq(layout, LAMBDA o : o.type = "movable")[i].label]]

\* find_products up to the allocation: no movable item, an allocation by
\* the generative model, or the fallback after the model failed
find_products ==
    /\ fn_pc = "shop"
    /\ \E items \in {movable_items_of(fn_args.current_layout)} :
          IF items = <<>>
          THEN /\ fn_pc' = "no_items"
               /\ fn_result' = Some(<<>>)
          ELSE \/ /\ fn_pc' = "model_allocated"
                  /\ fn_result' = None
               \/ \E ties \in [1..Len(items) -> BOOLEAN] :
                     /\ fn_pc' = "fallback_done"
                     /\ fn_result' = Some(fallback_allocate(items,
                                              fn_args.total_budget, ties))
    /\ UNCHANGED <<fn_args, run_vars, api_vars>>

----------------------------------------------------------------------------
(* Calls of the helper functions: inputs and specification *)

\* normalised coordinates the detector can report
BoxCoords == {0, 100, 290, 500, 1000, 1005}

ImageSizes == {<<1000, 1000>>, <<800, 600>>, <<100, 100>>}

ConvertArgs ==
    {[box_2d |-> <<ymin, xmin, ymax, xmax>>,
      image_width |-> size[1], image_height |-> size[2]] :
        ymin \in BoxCoords, xmin \in BoxCoords,
        ymax \in BoxCoords, xmax \in BoxCoords, size \in ImageSizes}

\* total_budget of the request, in thousandths of a dollar
Budgets == {10, 11, 30, 1000, 100000, 100005}

ShopDoors == {None, Some(ApiObject("door_1", "door", <<0, 40, 5, 20>>,
                                   "structural", FALSE, 0))}

ShopItem(id, label) ==
    {None, Some(ApiObject(id, label, <<10, 10, 10, 10>>, "movable", FALSE, 0))}

ShopLayouts ==
    {d \o b \o k \o c \o l :
        d \in ShopDoors, b \in ShopItem("bed_1", "bed"),
        k \in ShopItem("desk_1", "desk"), c \in ShopItem("chair_1", "office_chair"),
        l \in ShopItem("lamp_1", "lamp")}

ShopArgs == [current_layout : ShopLayouts, total_budget : Budgets]

\* a helper function is about to be called
FnInit ==
    /\ RunIdle
    /\ ApiIdle
    /\ \/ /\ fn_pc = "convert"
          /\ fn_args \in {a \in ConvertArgs : /\ a.box_2d[1] <= a.box_2d[3]
                                              /\ a.box_2d[2] <= a.box_2d[4]}
       \/ /\ fn_pc = "shop"
          /\ fn_args \in ShopArgs
    /\ fn_result = None

FnNext ==
    \/ convert_box
    \/ agent_convert_box
    \/ find_products

FnSpec == FnInit /\ [][FnNext]_vars

----------------------------------------------------------------------------
(* Properties *)

RoomW == room_dimensions[1]

RoomH == room_dimensions[2]

\* the violations an evaluation of the current layout finds
FoundNow == check_all_hard_constraints(current_layout, RoomW, RoomH)

\* structural, flagged locked, or listed in locked_object_ids
IsLockedOrStructural(o) ==
    \/ o.type = "structural"
    \/ o.is_locked
    \/ o.id \in SeqToSet(locked_object_ids)

\* every object of layout that carries the id of o has the bbox of o
SameBBox(o, layout) ==
    \A j \in 1..Len(layout) : layout[j].id = o.id => layout[j].bbox = o.bbox

\* C1 (locked invariance): every object that is structural, flagged locked
\* or listed in locked_object_ids has, in current_layout and in
\* proposed_layout, the bbox it has in the input layout, after any number
\* of solver passes.
C1_LockedInvariance ==
    \A i \in 1..Len(original_layout) :
        IsLockedOrStructural(original_layout[i]) =>
            /\ SameBBox(original_layout[i], current_layout)
            /\ proposed_layout # None =>
                   SameBBox(original_layout[i], proposed_layout[1])

\* a finished run in which the solver moved something while a violation
\* it processed involved a locked (non-structural) object
C1_Witness ==
    /\ pc = "END"
    /\ current_layout # original_layout
    /\ \E i \in 1..Len(original_layout), k \in 1..Len(constraint_violations) :
          /\ original_layout[i].type = "movable"
          /\ IsLockedOrStructural(original_layout[i])
          /\ original_layout[i].id \in
                 SeqToSet(constraint_violations[k].objects_involved)

\* C2 (termination): every run reaches the end of the graph through render,
\* and the solver is invoked at most max_iterations times.
C2_Termination ==
    /\ <>(pc = "END")
    /\ [](solver_calls <= max_iterations)

\* a run that ended by exhaustion: as many passes as allowed, violations left
C2_Witness ==
    /\ pc = "END"
    /\ max_iterations = MaxIter
    /\ solver_calls = max_iterations
    /\ FoundNow # <<>>

\* C3 (stop/continue decision): after an evaluation the solver runs next iff
\* the evaluation found a violation, iteration_count < max_iterations and
\* total_score < 95; once the run has stopped the solver never runs again.
C3_StopContinueDecision ==
    [][ /\ pc = "constraint" =>
             (pc' = "solver" <=>
                 /\ Len(FoundNow) > 0
                 /\ iteration_count < max_iterations
                 /\ score_layout(current_layout, RoomW, RoomH).total_score < 95)
        /\ pc = "constraint" => pc' \in {"solver", "render"}
        /\ pc \in {"render", "END"} =>
             (pc' \in {"render", "END"} /\ solver_calls' = solver_calls)
      ]_vars

\* the run stopped on the score alone: violations found, iterations left
C3_Witness ==
    /\ pc = "render"
    /\ Len(FoundNow) > 0
    /\ iteration_count < max_iterations
    /\ current_score[1].total_score >= 95

\* C4 (monotonic iteration count): iteration_count starts at 0, grows by
\* exactly 1 with each solver pass and is changed by no other step.
C4_MonotonicIteration ==
    /\ iteration_count = 0
    /\ [][ IF pc = "solver"
           THEN iteration_count' = iteration_count + 1
           ELSE iteration_count' = iteration_count ]_vars

\* a run with the largest number of passes
C4_Witness ==
    /\ pc = "END"
    /\ iteration_count = MaxIter
    /\ solver_calls = MaxIter

\* a state reached right after an evaluation (nothing moved since)
JustEvaluated == pc \in {"solver", "render", "END"}

\* C5 (violations are fresh per evaluation): after every evaluation the
\* constraint_violations of the run state are exactly the violations that
\* this evaluation found on the current layout.
C5_FreshViolations ==
    JustEvaluated => constraint_violations = FoundNow

\* C6 (zero-violation layout): when the first evaluation finds no violation
\* the run stops there: the solver is never invoked, iteration_count stays 0
\* and the layout equals the input layout.
C6_ZeroViolationStops ==
    (/\ JustEvaluated
     /\ check_all_hard_constraints(original_layout, RoomW, RoomH) = <<>>)
    => /\ pc # "solver"
       /\ solver_calls = 0
       /\ iteration_count = 0
       /\ current_layout = original_layout
       /\ proposed_layout # None => proposed_layout[1] = original_layout

\* a finished run on a clean layout of several objects whose score is
\* below the threshold although passes were allowed
C6_Witness ==
    /\ pc = "END"
    /\ check_all_hard_constraints(original_layout, RoomW, RoomH) = <<>>
    /\ Len(original_layout) >= 2
    /\ max_iterations > 0
    /\ current_score[1].total_score < 95
    /\ proposed_layout = Some(original_layout)

\* C7 (initial-score baseline): initial_score is unset until the first
\* evaluation, which sets it to the score of the input layout; no later
\* evaluation or solver pass changes it.
C7_InitialScoreBaseline ==
    IF pc = "vision" \/ (pc = "constraint" /\ solver_calls = 0)
    THEN initial_score = None
    ELSE initial_score = Some(score_layout(original_layout, RoomW, RoomH))

\* a finished run with at least two passes whose final score differs from
\* the baseline
C7_Witness ==
    /\ pc = "END"
    /\ solver_calls >= 2
    /\ current_score # initial_score

----------------------------------------------------------------------------
(* The searches of the last solver pass, read from search_log *)

LogIndexes == 1..Len(search_log)

\* the object a search was made for, at its position before the search
SearchedObject(e) == e.before[e.index]

\* the other objects at their positions at the moment of the search
OthersAt(e) == {e.before[j] : j \in (1..Len(e.before)) \ {e.index}}

\* the k-th candidate of a search
CandidateAt(e, k) ==
    TestObject(SearchedObject(e), CandidatePosition(SearchedObject(e), k))

\* inside the room and overlapping no other object
FeasibleObject(t, e) ==
    /\ ObjX(t) >= 0 /\ ObjY(t) >= 0
    /\ ObjX(t) + ObjW(t) <= RoomW
    /\ ObjY(t) + ObjH(t) <= RoomH
    /\ \A o \in OthersAt(e) : ~check_overlap(t, o)

FeasibleAt(e, k) == FeasibleObject(CandidateAt(e, k), e)

FeasibleSet(e) == {k \in 1..NumCandidates : FeasibleAt(e, k)}

\* minimum clearance of the k-th candidate to all other objects
ClearanceAt(e, k) ==
    LET cs == {calculate_clearance(CandidateAt(e, k), o) : o \in OthersAt(e)}
    IN  IF cs = {} THEN Infinity ELSE CHOOSE c \in cs : \A d \in cs : c <= d

\* the layout after the n-th search of the pass
LayoutAfter(n) ==
    IF n < Len(search_log) THEN search_log[n + 1].before ELSE current_layout

\* the layout with the object of search e placed at pos
Committed(e, pos) ==
    [e.before EXCEPT ![e.index].bbox = <<pos[1], pos[2], @[3], @[4]>>]

\* C8 (feasibility of committed moves): every position the solver commits
\* keeps the object's full extent inside the room and overlaps no other
\* object at that object's position at the moment of the move; the layout
\* after a search is the layout before it with at most that feasible move.
C8_FeasibleMoves ==
    \A n \in LogIndexes :
        LET e == search_log[n]
        IN  IF e.result = None
            THEN LayoutAfter(n) = e.before
            ELSE /\ FeasibleObject(TestObject(SearchedObject(e), e.result[1]), e)
                 /\ LayoutAfter(n) = Committed(e, e.result[1])

\* a committed move of a search in which one candidate left the room and
\* another one, inside the room, overlapped another object
C8_Witness ==
    \E n \in LogIndexes :
        LET e == search_log[n]
        IN  /\ e.result # None
            /\ \E k \in 1..NumCandidates :
                  ~check_room_bounds(CandidateAt(e, k), RoomW, RoomH)
            /\ \E k \in 1..NumCandidates :
                  /\ check_room_bounds(CandidateAt(e, k), RoomW, RoomH)
                  /\ \E o \in OthersAt(e) : check_overlap(CandidateAt(e, k), o)

\* C9 (selection rule): when a search has feasible candidates it returns
\* one of greatest minimum clearance, and among those the first in
\* enumeration order (distance outer, direction inner).
C9_SelectionRule ==
    \A n \in LogIndexes :
        LET e == search_log[n]
        IN  FeasibleSet(e) # {} =>
                \E k \in FeasibleSet(e) :
                    /\ e.result = Some(CandidatePosition(SearchedObject(e), k))
                    /\ \A j \in FeasibleSet(e) :
                          /\ ClearanceAt(e, j) <= ClearanceAt(e, k)
                          /\ j < k => ClearanceAt(e, j) < ClearanceAt(e, k)

\* a search with other objects around in which a later feasible candidate
\* has the same greatest clearance as the one returned
C9_Witness ==
    \E n \in LogIndexes :
        LET e == search_log[n]
        IN  /\ OthersAt(e) # {}
            /\ \E k \in FeasibleSet(e), j \in FeasibleSet(e) :
                  /\ k < j
                  /\ e.result = Some(CandidatePosition(SearchedObject(e), k))
                  /\ ClearanceAt(e, j) = ClearanceAt(e, k)
                  /\ \E i \in FeasibleSet(e) : ClearanceAt(e, i) < ClearanceAt(e, k)

\* ids of the objects the last pass moved
MovedIds == {search_log[n].id : n \in {m \in LogIndexes : search_log[m].result # None}}

\* the violations found by the evaluation that preceded the last pass
FoundBeforePass ==
    IF search_log = <<>> THEN <<>>
    ELSE check_all_hard_constraints(search_log[1].before, RoomW, RoomH)

----------------------------------------------------------------------------
(* The frame of a pass and the end of a run *)

\* ids of the objects involved in the violations a pass processes
ImplicatedIds ==
    UNION {SeqToSet(constraint_violations[k].objects_involved) :
              k \in 1..Len(constraint_violations)}

\* one of the objects involved in v is neither structural nor locked
HasMovableParticipant(v) ==
    \E i \in 1..Len(current_layout) :
        /\ current_layout[i].id \in SeqToSet(v.objects_involved)
        /\ ~IsLockedOrStructural(current_layout[i])

\* C11 (only implicated movable objects move): in a solver pass an object
\* changes only if it is movable and its id is among the objects involved in
\* one of the violations the pass processes; every search of the pass is made
\* for a movable participant of a processed violation, so a violation
\* without movable participant causes no search and no change.
C11_OnlyImplicatedMove ==
    [][pc = "solver" =>
         /\ Len(current_layout') = Len(current_layout)
         /\ \A i \in 1..Len(current_layout) :
               current_layout'[i] # current_layout[i] =>
                   /\ ~IsLockedOrStructural(current_layout[i])
                   /\ current_layout[i].id \in ImplicatedIds
         /\ \A n \in 1..Len(search_log') :
               /\ search_log'[n].violation \in SeqToSet(constraint_violations)
               /\ HasMovableParticipant(search_log'[n].violation)
               /\ search_log'[n].id \in
                      SeqToSet(search_log'[n].violation.objects_involved)
               /\ ~IsLockedOrStructural(search_log'[n].before[search_log'[n].index])
         /\ (\A k \in 1..Len(constraint_violations) :
                ~HasMovableParticipant(constraint_violations[k]))
            => current_layout' = current_layout
    ]_vars

\* right after a pass that moved an object although one of the violations
\* it processed had no movable participant, and one object stayed in place
C11_Witness ==
    /\ pc = "constraint"
    /\ solver_calls >= 1
    /\ MovedIds # {}
    /\ \E k \in 1..Len(constraint_violations) :
          ~HasMovableParticipant(constraint_violations[k])
    /\ \E i \in 1..Len(current_layout) :
          /\ ~IsLockedOrStructural(current_layout[i])
          /\ current_layout[i].id \notin MovedIds

\* the latest evaluation found violations and no pass is left
Exhausted ==
    /\ JustEvaluated
    /\ iteration_count >= max_iterations
    /\ FoundNow # <<>>

\* C12 (exhaustion is a normal terminal state): when the latest evaluation
\* still finds violations and iteration_count >= max_iterations, the run
\* goes to render and ends with should_continue = FALSE, a non-empty
\* violation list and no error; should_continue is FALSE in every state
\* after the last evaluation.
C12_ExhaustionIsNormal ==
    /\ [](Exhausted => /\ pc \in {"render", "END"}
                       /\ should_continue = FALSE
                       /\ constraint_violations # <<>>
                       /\ error = None)
    /\ [](pc \in {"render", "END"} => should_continue = FALSE)
    /\ (Exhausted ~> (/\ pc = "END"
                      /\ should_continue = FALSE
                      /\ constraint_violations # <<>>
                      /\ error = None))

\* a run that ended after at least one pass with violations left although
\* the score of the last evaluation is below the threshold
C12_Witness ==
    /\ pc = "END"
    /\ max_iterations >= 1
    /\ iteration_count >= max_iterations
    /\ FoundNow # <<>>
    /\ current_score[1].total_score < SCORE_THRESHOLD
    /\ should_continue = FALSE

\* C13 (input isolation): no step of a run changes the caller's objects or
\* original_layout; a pass that returns a layout returns new instances, none
\* of which is an instance of the caller's list.
C13_InputIsolation ==
    [][ /\ objects' = objects
        /\ original_layout' = original_layout
        /\ current_refs' # current_refs =>
              SeqToSet(current_refs') \cap SeqToSet(InputRefs(objects)) = {}
      ]_vars

\* a finished run of two passes that moved an object: the caller's objects
\* and original_layout still hold the input positions
C13_Witness ==
    /\ pc = "END"
    /\ solver_calls >= 2
    /\ current_layout # original_layout
    /\ objects = original_layout
    /\ SeqToSet(current_refs) \cap SeqToSet(InputRefs(objects)) = {}

\* minimum clearance of the searched object, at its position before the
\* search, to all other objects
CurrentClearance(e) ==
    LET cs == {calculate_clearance(SearchedObject(e), o) : o \in OthersAt(e)}
    IN  IF cs = {} THEN Infinity ELSE CHOOSE c \in cs : \A d \in cs : c <= d

\* the position a search returned is better than the position the object
\* had: that one was not feasible, or had a smaller minimum clearance
IsImprovement(e) ==
    \/ ~FeasibleObject(SearchedObject(e), e)
    \/ ClearanceAt(e, CHOOSE k \in 1..NumCandidates :
                         e.result = Some(CandidatePosition(SearchedObject(e), k)))
           > CurrentClearance(e)

\* C14 (a pass keeps only improvements): the total score of the layout after
\* a pass is not lower than the total score before the pass, and a search
\* returns a position only when it improves on the object's position.
C14_KeepsImprovements ==
    /\ (pc = "constraint" /\ solver_calls >= 1) =>
          score_layout(current_layout, RoomW, RoomH).total_score
              >= current_score[1].total_score
    /\ \A n \in LogIndexes :
          search_log[n].result # None => IsImprovement(search_log[n])

----------------------------------------------------------------------------
(* The door scenario (tests/test_phase3.py, test_solver_node_makes_changes) *)

ScenarioDoor == RoomObject("door_1", "door", <<0, 100, 20, 80>>, "structural", FALSE)

ScenarioDesk == RoomObject("desk_1", "desk", <<25, 100, 80, 50>>, "movable", FALSE)

\* a run on the door and the movable desk in the 300 x 400 room
DoorScenario ==
    /\ room_dimensions = <<300, 400>>
    /\ original_layout = <<ScenarioDoor, ScenarioDesk>>
    /\ "desk_1" \notin SeqToSet(locked_object_ids)

\* C15 (door scenario): after a solver pass on the desk [25,100,80,50] and
\* the structural door [0,100,20,80] in the 300 x 400 room the door is
\* unchanged, and either the desk has moved to a position that does not
\* overlap the door and whose clearance to the door is at least the minimum
\* clearance threshold, or the desk is unchanged and the next evaluation
\* reports the door-clearance violation.
C15_DoorScenario ==
    (DoorScenario /\ solver_calls >= 1) =>
        /\ Len(current_layout) = 2
        /\ current_layout[1] = ScenarioDoor
        /\ \/ /\ current_layout[2].bbox # ScenarioDesk.bbox
              /\ ~check_overlap(current_layout[2], current_layout[1])
              /\ calculate_clearance(current_layout[2], current_layout[1])
                     >= MinClearance(RoomW, RoomH)
           \/ /\ current_layout[2] = ScenarioDesk
              /\ ConstraintViolation("door_clearance", <<"desk_1", "door_1">>)
                     \in SeqToSet(FoundNow)

\* right after the first pass of the scenario: the desk was moved away from
\* the door and the evaluation of the new layout finds nothing
C15_Witness ==
    /\ DoorScenario
    /\ solver_calls = 1
    /\ pc = "constraint"
    /\ "desk_1" \in MovedIds
    /\ current_layout[2].bbox # ScenarioDesk.bbox
    /\ FoundNow = <<>>

\* what constraint_node yields when it is run on the present state
Evaluation ==
    [constraint_violations |-> FoundNow,
     current_score |-> score_layout(current_layout, RoomW, RoomH),
     should_continue |->
         ShouldContinue(FoundNow, iteration_count, max_iterations,
                        score_layout(current_layout, RoomW, RoomH))]

\* the last n elements of s
LastN(s, n) == SubSeq(s, Len(s) - n + 1, Len(s))

\* C18 (idempotence of evaluation): run on the state it has just produced,
\* constraint_node yields the violations, in the same order, the score and
\* the should_continue value it yielded on the state before, which are the
\* ones it has written; it changes neither the layout nor iteration_count.
C18_IdempotentEvaluation ==
    [][pc = "constraint" =>
          /\ Evaluation' = Evaluation
          /\ LastN(constraint_violations',
                   Len(Evaluation.constraint_violations))
                = Evaluation.constraint_violations
          /\ current_score' = Some(Evaluation.current_score)
          /\ should_continue' = Evaluation.should_continue
          /\ current_layout' = current_layout
          /\ iteration_count' = iteration_count
    ]_vars

\* right after an evaluation that followed a pass, found violations, wrote a
\* score other than the baseline and decided to go on
C18_Witness ==
    /\ pc = "solver"
    /\ solver_calls >= 1
    /\ FoundNow # <<>>
    /\ should_continue = TRUE
    /\ current_score # initial_score
    /\ current_layout # original_layout

\* the layout a pass returns when its loop over the set of locked ids takes
\* them in the given order
PassLayout(order) ==
    IF constraint_violations = <<>> THEN current_layout
    ELSE FixViolations(constraint_violations,
                       get_movable_objects(current_layout, lock_all(order, {})),
                       [layout |-> current_layout, log |-> <<>>],
                       RoomW, RoomH, SeqToSet(locked_object_ids)).layout

\* C19 (determinism of repair): the layout and the iteration count after a
\* solver pass are those of the state before it, whatever the order in which
\* the pass iterates over its set of locked ids: passes started from equal
\* states end in equal states; no other step changes the layout or the count.
C19_DeterministicRepair ==
    [][IF pc = "solver"
       THEN /\ \A order \in Orders(SeqToSet(locked_object_ids)) :
                  current_layout' = PassLayout(order)
            /\ iteration_count' = iteration_count + 1
       ELSE /\ current_layout' = current_layout
            /\ iteration_count' = iteration_count
    ]_vars

\* right after a pass that moved an object while two ids were locked, so
\* that the loop over the locked ids could run in two orders
C19_Witness ==
    /\ pc = "constraint"
    /\ solver_calls >= 1
    /\ Cardinality(SeqToSet(locked_object_ids)) >= 2
    /\ MovedIds # {}
    /\ current_layout # original_layout

----------------------------------------------------------------------------
(* Properties of the calls of the API *)

\* structural, flagged locked, or listed in the user's locked ids
IsLockedIn(o, user_locked_ids) ==
    \/ o.type = "structural"
    \/ o.is_locked
    \/ o.id \in user_locked_ids

LayoutIds(layout) == {layout[i].id : i \in 1..Len(layout)}

\* locked_or_structural of a layout
LockedOrStructural(layout, user_locked_ids) ==
    {layout[i].id : i \in {j \in 1..Len(layout) :
                              IsLockedIn(layout[j], user_locked_ids)}}

\* the step is a call of /optimize
OptimizeCall == api_pc = "request" /\ api_pc' = "optimize_done"

\* C16 (locked classification): of the objects of the request, the ids
\* that /optimize collects, the ids that the designer collects and the ids
\* that the solver's graph does not count as movable are exactly those of
\* the objects that are structural, flagged locked or listed in the user's
\* locked ids; every other object is movable.
C16_LockedClassification ==
    [][api_pc = "request" =>
         /\ OptimizeCall =>
               complete_locked_ids' \cap LayoutIds(request_layout)
                  = LockedOrStructural(request_layout, SeqToSet(request_locked_ids))
         /\ designer_locked' # None =>
               designer_locked'[1] \cap LayoutIds(request_layout)
                  = LockedOrStructural(request_layout, SeqToSet(request_locked_ids))
         /\ get_movable_objects(request_layout, SeqToSet(request_locked_ids))
               = LayoutIds(request_layout)
                    \ LockedOrStructural(request_layout, SeqToSet(request_locked_ids))
    ]_vars

\* after a call that reached the designer: the request held a structural
\* object, a movable one locked by its flag alone, a movable one locked by
\* its id alone and a movable one that is not locked
C16_Witness ==
    /\ api_pc \in {"optimize_done", "designer_done"}
    /\ designer_locked # None
    /\ \E i \in 1..Len(request_layout) : request_layout[i].type = "structural"
    /\ \E i \in 1..Len(request_layout) :
          /\ request_layout[i].type = "movable"
          /\ request_layout[i].is_locked
          /\ request_layout[i].id \notin SeqToSet(request_locked_ids)
    /\ \E i \in 1..Len(request_layout) :
          /\ request_layout[i].type = "movable"
          /\ request_layout[i].id \in SeqToSet(request_locked_ids)
    /\ \E i \in 1..Len(request_layout) :
          request_layout[i].id \notin designer_locked[1]

\* C17 (positions change only for unlocked movable objects): neither a
\* solver pass nor a layout edit of the chat editor returns a layout in
\* which a structural or locked object has another bbox than in the input.
C17_OnlyUnlockedMove ==
    /\ \A i \in 1..Len(original_layout) :
          IsLockedIn(original_layout[i], SeqToSet(locked_object_ids)) =>
              \A j \in 1..Len(current_layout) :
                  current_layout[j].id = original_layout[i].id =>
                      current_layout[j].bbox = original_layout[i].bbox
    /\ api_pc = "edit_done" =>
          \A i \in 1..Len(request_layout) :
              IsLockedIn(request_layout[i], {}) =>
                  SameBBox(request_layout[i], updated_layout[1])

\* C20 (/optimize without movable object): a request in which every object
\* is structural, flagged locked or listed in locked_ids is answered with
\* status 400, and the designer agent is neither created nor run.
C20_RejectsNoMovable ==
    [][(/\ OptimizeCall
        /\ LockedOrStructural(request_layout, SeqToSet(request_locked_ids))
              = LayoutIds(request_layout))
       => /\ http_status' = 400
          /\ designer_created' = FALSE
          /\ designer_locked' = None
    ]_vars

\* a rejected request of three objects: one structural, one movable locked
\* by its flag alone, one movable locked by its id alone
C20_Witness ==
    /\ api_pc = "optimize_done"
    /\ http_status = 400
    /\ ~designer_created
    /\ Len(request_layout) = 3
    /\ LayoutIds(request_layout) \subseteq complete_locked_ids
    /\ \E i \in 1..Len(request_layout) : request_layout[i].type = "structural"
    /\ \E i \in 1..Len(request_layout) :
          /\ request_layout[i].type = "movable"
          /\ request_layout[i].id \notin SeqToSet(request_locked_ids)
    /\ \E i \in 1..Len(request_layout) :
          /\ request_layout[i].type = "movable"
          /\ request_layout[i].id \in SeqToSet(request_locked_ids)

----------------------------------------------------------------------------
(* Properties of the geometry as the solver uses it *)

\* the other objects of a search, in the order the solver scans them
OtherSeqAt(e) == OtherObjects(SearchedObject(e), e.before)

\* C21 (overlap symmetry): overlap(a, b) = overlap(b, a) for every pair of
\* objects of the layout and for every candidate of a search against every
\* other object; so the solver rejects a candidate for overlap exactly when
\* some other object, taken as the first argument, overlaps the candidate.
C21_OverlapSymmetry ==
    /\ \A i, j \in 1..Len(current_layout) :
          check_overlap(current_layout[i], current_layout[j])
              = check_overlap(current_layout[j], current_layout[i])
    /\ \A n \in LogIndexes : \A k \in 1..NumCandidates :
          /\ \A o \in OthersAt(search_log[n]) :
                check_overlap(CandidateAt(search_log[n], k), o)
                    = check_overlap(o, CandidateAt(search_log[n], k))
          /\ ScanOthers(CandidateAt(search_log[n], k),
                        OtherSeqAt(search_log[n]), Infinity).has_overlap
                = (\E o \in OthersAt(search_log[n]) :
                      check_overlap(o, CandidateAt(search_log[n], k)))

\* a search in which one candidate is rejected for overlapping another
\* object and another candidate lies wholly to the right of that object
C21_Witness ==
    \E n \in LogIndexes : \E o \in OthersAt(search_log[n]) :
        /\ \E k \in 1..NumCandidates :
              /\ check_overlap(CandidateAt(search_log[n], k), o)
              /\ ScanOthers(CandidateAt(search_log[n], k),
                            OtherSeqAt(search_log[n]), Infinity).has_overlap
        /\ \E k \in 1..NumCandidates :
              /\ ObjX(CandidateAt(search_log[n], k)) >= ObjX(o) + ObjW(o)
              /\ ObjY(CandidateAt(search_log[n], k)) < ObjY(o) + ObjH(o)
              /\ ObjY(o) < ObjY(CandidateAt(search_log[n], k))
                               + ObjH(CandidateAt(search_log[n], k))

\* an edge of a lies on an edge of b and the two share a stretch of it
EdgeAdjacent(a, b) ==
    \/ /\ ObjX(a) + ObjW(a) = ObjX(b) \/ ObjX(b) + ObjW(b) = ObjX(a)
       /\ ObjY(a) < ObjY(b) + ObjH(b)
       /\ ObjY(b) < ObjY(a) + ObjH(a)
    \/ /\ ObjY(a) + ObjH(a) = ObjY(b) \/ ObjY(b) + ObjH(b) = ObjY(a)
       /\ ObjX(a) < ObjX(b) + ObjW(b)
       /\ ObjX(b) < ObjX(a) + ObjW(a)

\* a candidate inside the room that overlaps nothing and touches an object
TouchingCandidate(e, k) ==
    /\ check_room_bounds(CandidateAt(e, k), RoomW, RoomH)
    /\ \A o \in OthersAt(e) : ~check_overlap(CandidateAt(e, k), o)
    /\ \E o \in OthersAt(e) : EdgeAdjacent(CandidateAt(e, k), o)

\* C22 (clearance on separation): for every candidate of a search and every
\* other object, no overlap implies clearance >= 0, and touching edges mean
\* no overlap and clearance exactly 0; a candidate inside the room that
\* touches an object and overlaps none is not skipped: its position score
\* is 0 and the search returns a position.
C22_ClearanceOnSeparation ==
    \A n \in LogIndexes : \A k \in 1..NumCandidates :
        /\ \A o \in OthersAt(search_log[n]) :
              /\ ~check_overlap(CandidateAt(search_log[n], k), o)
                    => calculate_clearance(CandidateAt(search_log[n], k), o) >= 0
              /\ EdgeAdjacent(CandidateAt(search_log[n], k), o)
                    => /\ ~check_overlap(CandidateAt(search_log[n], k), o)
                       /\ calculate_clearance(CandidateAt(search_log[n], k), o) = 0
        /\ TouchingCandidate(search_log[n], k)
              => /\ EvaluateCandidate(CandidateAt(search_log[n], k),
                                      OtherSeqAt(search_log[n]), RoomW, RoomH)
                        = Some(0)
                 /\ search_log[n].result # None

\* a search that commits a candidate which touches another object
C22_Witness ==
    \E n \in LogIndexes : \E k \in 1..NumCandidates :
        /\ TouchingCandidate(search_log[n], k)
        /\ search_log[n].result = Some(CandidatePosition(SearchedObject(search_log[n]), k))

\* the displacement a search committed
Displacement(e) ==
    <<e.result[1][1] - ObjX(SearchedObject(e)),
      e.result[1][2] - ObjY(SearchedObject(e))>>

\* C24 (candidate generation): every committed move displaces the object by
\* (dx*d, dy*d) with (dx, dy) one of the 8 unit directions and d one of
\* 10, 20, 50, 100; the displacement is never zero.
C24_CandidateGeneration ==
    \A n \in LogIndexes :
        search_log[n].result # None
            => /\ Displacement(search_log[n]) # <<0, 0>>
               /\ \E dx \in {-1, 0, 1}, dy \in {-1, 0, 1}, d \in {10, 20, 50, 100} :
                     /\ <<dx, dy>> # <<0, 0>>
                     /\ Displacement(search_log[n]) = <<dx * d, dy * d>>
               /\ LayoutAfter(n)[search_log[n].index].bbox[1]
                     = ObjX(SearchedObject(search_log[n]))
                         + Displacement(search_log[n])[1]
               /\ LayoutAfter(n)[search_log[n].index].bbox[2]
                     = ObjY(SearchedObject(search_log[n]))
                         + Displacement(search_log[n])[2]

\* a pass that commits a diagonal move and a move along one axis, one of
\* them by more than the smallest step
C24_Witness ==
    /\ \E n \in LogIndexes :
          /\ search_log[n].result # None
          /\ Displacement(search_log[n])[1] # 0
          /\ Displacement(search_log[n])[2] # 0
    /\ \E n \in LogIndexes :
          /\ search_log[n].result # None
          /\ Displacement(search_log[n])[1] = 0
          /\ Displacement(search_log[n])[2] \in {50, -50, 100, -100}

\* the ids of the objects a pass may move, and of those it may not
MovablePartition ==
    [movable |-> get_movable_objects(current_layout, SeqToSet(locked_object_ids)),
     fixed |-> {current_layout[i].id : i \in 1..Len(current_layout)}
                  \ get_movable_objects(current_layout,
                                        SeqToSet(locked_object_ids))]

\* C25 (run configuration is fixed): no step of a run changes
\* room_dimensions, max_iterations or locked_object_ids, and the partition
\* of the objects into fixed and movable ones is the same after every step,
\* hence in every pass.
C25_RunConfigurationFixed ==
    [][/\ room_dimensions' = room_dimensions
       /\ max_iterations' = max_iterations
       /\ locked_object_ids' = locked_object_ids
       /\ MovablePartition' = MovablePartition]_vars

\* after the second pass of a run that has fixed and movable objects and
\* whose last pass moved one
C25_Witness ==
    /\ solver_calls >= 2
    /\ ChangesMade(search_log) # <<>>
    /\ MovablePartition.movable # {}
    /\ MovablePartition.fixed # {}
    /\ locked_object_ids # <<>>

\* the pairs of positions of a layout whose objects overlap
OverlappingPairs(layout) ==
    {p \in (1..Len(layout)) \X (1..Len(layout)) :
        p[1] < p[2] /\ check_overlap(layout[p[1]], layout[p[2]])}

\* no move of the last pass created an overlapping pair
NoMoveCreatesOverlap ==
    \A n \in LogIndexes :
        /\ OverlappingPairs(LayoutAfter(n)) \subseteq OverlappingPairs(search_log[n].before)
        /\ search_log[n].result # None
              => \A j \in (1..Len(current_layout)) \ {search_log[n].index} :
                    ~check_overlap(LayoutAfter(n)[search_log[n].index],
                                   LayoutAfter(n)[j])

\* every object the last pass moved overlaps no other object now
MovedObjectsClear ==
    \A i \in 1..Len(current_layout) :
        current_layout[i].id \in MovedIds
            => \A j \in (1..Len(current_layout)) \ {i} :
                  ~check_overlap(current_layout[i], current_layout[j])

\* C28 (no new overlaps): after every step of a run, no committed move of
\* the last pass has created an overlapping pair, every object moved during
\* that pass overlaps no other object, and the number of overlapping pairs
\* of the current layout is not larger than before the step.
C28_NoNewOverlaps ==
    [][/\ NoMoveCreatesOverlap'
       /\ MovedObjectsClear'
       /\ Cardinality(OverlappingPairs(current_layout'))
             <= Cardinality(OverlappingPairs(current_layout))]_vars

\* a pass that moved two objects of a layout with an overlapping pair and
\* left no overlapping pair
C28_Witness ==
    /\ Cardinality(MovedIds) >= 2
    /\ OverlappingPairs(search_log[1].before) # {}
    /\ OverlappingPairs(current_layout) = {}

\* an object without the position of its box
Unpositioned(o) ==
    [id |-> o.id, label |-> o.label, type |-> o.type, is_locked |-> o.is_locked,
     width |-> ObjW(o), height |-> ObjH(o)]

\* the layout without the positions: count, order and all other fields
Frame == [i \in 1..Len(current_layout) |-> Unpositioned(current_layout[i])]

\* C29 (solver frame): a solver pass changes nothing but the x and y of the
\* objects it moved: the number of objects, their order, ids, labels, kinds,
\* locked flags, widths and heights after the pass are those before it, and
\* an object whose position differs is one the pass committed a move for.
C29_SolverFrame ==
    [][pc = "solver"
          => /\ Frame' = Frame
             /\ \A i \in 1..Len(current_layout) :
                   current_layout'[i].bbox # current_layout[i].bbox
                       => current_layout[i].id \in MovedIds']_vars

\* after a pass over three objects, one of them flagged locked, that moved
\* an object
C29_Witness ==
    /\ solver_calls >= 1
    /\ MovedIds # {}
    /\ Len(current_layout) = 3
    /\ \E i \in 1..Len(current_layout) : current_layout[i].is_locked
    /\ current_layout # search_log[1].before

\* the stop/continue decision an evaluation of the present layout takes
DecisionNow ==
    /\ Len(FoundNow) > 0
    /\ iteration_count < max_iterations
    /\ score_layout(current_layout, RoomW, RoomH).total_score < 95

\* C30 (final results match the final layout): a solver pass is always
\* followed by an evaluation and the render step is entered only from an
\* evaluation; when the run reaches END, proposed_layout is current_layout,
\* and current_score and should_continue are what an evaluation of that
\* layout computes.
C30_FinalResultsMatch ==
    [][/\ pc = "solver" => pc' = "constraint"
       /\ pc' = "render" => pc = "constraint"
       /\ pc' = "END"
             => /\ pc = "render"
                /\ proposed_layout' = Some(current_layout')
                /\ current_score' = Some(score_layout(current_layout', RoomW', RoomH'))
                /\ should_continue' = DecisionNow']_vars

\* a finished run that made a pass, changed the layout and the score and
\* still has violations
C30_Witness ==
    /\ pc = "END"
    /\ solver_calls >= 1
    /\ current_layout # objects
    /\ proposed_layout = Some(current_layout)
    /\ current_score # initial_score
    /\ FoundNow # <<>>

----------------------------------------------------------------------------
(* Properties of the remove edit *)

\* the object a remove command names: the first one with the target id,
\* else the first one whose label or id the description mentions, else 0
RemoveTarget ==
    LET by_id == {i \in 1..Len(request_layout) :
                     parsed_command[1].target_object_id = Some(request_layout[i].id)}
        by_text == {i \in 1..Len(request_layout) :
                       \/ lower(request_layout[i].label)
                              \in Fragments(lower(parsed_command[1].natural_description))
                       \/ lower(request_layout[i].id)
                              \in Fragments(lower(parsed_command[1].natural_description))}
    IN  IF by_id # {} THEN CHOOSE i \in by_id : \A j \in by_id : i <= j
        ELSE IF by_text # {} THEN CHOOSE i \in by_text : \A j \in by_text : i <= j
        ELSE 0

\* C26 (chat remove edit): a remove edit keeps every structural object;
\* when the target is not found or is structural the returned layout is the
\* input layout and no label is reported; otherwise the returned layout is
\* the input layout without the objects that carry the target's id, the
\* others unchanged and in the same order, and the target's label is
\* reported.
C26_RemoveEdit ==
    api_pc = "remove_done"
        => /\ \A i \in 1..Len(request_layout) :
                 request_layout[i].type = "structural"
                     => \E j \in 1..Len(updated_layout[1]) :
                           updated_layout[1][j] = request_layout[i]
           /\ IF RemoveTarget = 0
              THEN updated_layout[1] = request_layout /\ removed_label = None
              ELSE IF request_layout[RemoveTarget].type = "structural"
              THEN updated_layout[1] = request_layout /\ removed_label = None
              ELSE /\ updated_layout[1] =
                         SelectSeq(request_layout,
                                   LAMBDA o : o.id # request_layout[RemoveTarget].id)
                   /\ Len(updated_layout[1]) = Len(request_layout) - 1
                   /\ removed_label = Some(request_layout[RemoveTarget].label)

\* a remove command whose description names a structural door and a bed:
\* the door comes first and nothing is removed
C26_StructuralRefused ==
    /\ api_pc = "remove_done"
    /\ parsed_command[1].target_object_id = Some("lamp_9")
    /\ RemoveTarget # 0
    /\ request_layout[RemoveTarget].type = "structural"
    /\ \E i \in 1..Len(request_layout) : request_layout[i].id = "bed_1"
    /\ updated_layout = Some(request_layout)

\* a remove command that removes the object its description mentions
C26_Witness ==
    /\ api_pc = "remove_done"
    /\ parsed_command[1].target_object_id = None
    /\ removed_label = Some("Armchair")
    /\ Len(updated_layout[1]) = Len(request_layout) - 1
    /\ \E i \in 1..Len(request_layout) : request_layout[i].type = "structural"

----------------------------------------------------------------------------
(* Properties of the helper functions *)

\* the box of the call lies in 0..1000 with xmin <= xmax and ymin <= ymax
NormalisedBox ==
    /\ \A i \in 1..4 : fn_args.box_2d[i] \in 0..1000
    /\ fn_args.box_2d[1] <= fn_args.box_2d[3]
    /\ fn_args.box_2d[2] <= fn_args.box_2d[4]

\* trunc(v * size / 1000) for v, size >= 0
Truncated(v, size) == (v * size) \div 1000

\* C23 (box conversion): for a box <<ymin, xmin, ymax, xmax>> in 0..1000
\* with xmin <= xmax and ymin <= ymax and an image W x H,
\* convert_box_2d_to_bbox returns <<trunc(xmin*W/1000), trunc(ymin*H/1000),
\* trunc((xmax-xmin)*W/1000), trunc((ymax-ymin)*H/1000)>>.
C23_BoxConversion ==
    (fn_pc = "service_done" /\ NormalisedBox)
        => fn_result =
             Some(<<Truncated(fn_args.box_2d[2], fn_args.image_width),
                    Truncated(fn_args.box_2d[1], fn_args.image_height),
                    Truncated(fn_args.box_2d[4] - fn_args.box_2d[2],
                              fn_args.image_width),
                    Truncated(fn_args.box_2d[3] - fn_args.box_2d[1],
                              fn_args.image_height)>>)

\* the items find_products hands to the allocation
ShopItems == movable_items_of(fn_args.current_layout)

\* C27 (fallback budget allocation): the fallback returns one entry per
\* movable item, in input order, with the item's id and label; every budget
\* is a whole number of cents and the budgets sum exactly to total_budget.
C27_FallbackAllocation ==
    fn_pc = "fallback_done"
        => /\ Len(fn_result[1]) = Len(ShopItems)
           /\ \A i \in 1..Len(ShopItems) :
                 /\ fn_result[1][i].id = ShopItems[i].id
                 /\ fn_result[1][i].label = ShopItems[i].label
                 /\ fn_result[1][i].budget % 10 = 0
           /\ SumSeq([i \in 1..Len(fn_result[1]) |-> fn_result[1][i].budget])
                 = fn_args.total_budget

====
